---- MODULE Spec2Model ----
(***************************************************************************)
(* State-machine model of the PyP6Xer record registries                    *)
(* (src/xer_parser/model): the Projects and ActivityResources collections, *)
(* the class-level lists of Calendar, ResourceCurve, ResourceCat and       *)
(* TaskActv, and Task with the decoding of its row, its calendar           *)
(* reference, its duration and its other queries.                          *)
(*                                                                         *)
(* Objects are referred to by their position in the list that holds them   *)
(* (lists are append-only), so "the record" returned by a lookup is an    *)
(* index into that list.  Python's None is the integer None below; raw row *)
(* values are sequences of one-character strings.                          *)
(***************************************************************************)
EXTENDS Integers, Sequences, FiniteSets, TLC

(***************************************************************************)
(* Bounds of the model.                                                    *)
(***************************************************************************)
\* Total number of record objects created in one run.
MaxObjs == 3

(***************************************************************************)
(* Python values.                                                          *)
(***************************************************************************)
\* Python's None for an optional number (ids and hour counts are >= 0 here).
None == -1

\* params.get(key) for a key the row does not have.
NoKey == <<"<no key>">>

\* bool(x) of an optional number: None and 0 are falsy.
Truthy(x) == x # None /\ x # 0

\* bool(params.get(key)): a missing key (None) and "" are falsy.
RawTruthy(s) == s # NoKey /\ s # <<>>

Whitespace == {" ", "\t"}

Digits == {"0", "1", "2", "3", "4", "5", "6", "7", "8", "9"}

DigitVal(c) ==
    CASE c = "0" -> 0 [] c = "1" -> 1 [] c = "2" -> 2 [] c = "3" -> 3
      [] c = "4" -> 4 [] c = "5" -> 5 [] c = "6" -> 6 [] c = "7" -> 7
      [] c = "8" -> 8 [] c = "9" -> 9

RECURSIVE LStrip(_)
LStrip(s) ==
    IF s # <<>> /\ Head(s) \in Whitespace THEN LStrip(Tail(s)) ELSE s

RECURSIVE RStrip(_)
RStrip(s) ==
    IF s # <<>> /\ s[Len(s)] \in Whitespace
    THEN RStrip(SubSeq(s, 1, Len(s) - 1))
    ELSE s

\* str.strip()
Strip(s) == RStrip(LStrip(s))

\* Whether int(s) / locale.atof(s) accepts s: digits, after stripping blanks.
\* (Only unsigned whole-number literals are fed to the model.)
IsNumLit(s) ==
    /\ s # NoKey
    /\ Strip(s) # <<>>
    /\ \A i \in 1..Len(Strip(s)) : Strip(s)[i] \in Digits

RECURSIVE DigitsVal(_)
DigitsVal(s) ==
    IF s = <<>> THEN 0
    ELSE 10 * DigitsVal(SubSeq(s, 1, Len(s) - 1)) + DigitVal(s[Len(s)])

\* int(s) of an accepted literal.
PyInt(s) == DigitsVal(Strip(s))

\* locale.atof(s) of an accepted whole-number literal.
Atof(s) == DigitsVal(Strip(s))

\* An attribute the constructor never assigned: reading it raises
\* AttributeError.
Unassigned == -2

\* None for a date, and a date attribute that was never assigned.
NoDate == <<>>

NoAttr == <<Unassigned>>

DaysInMonth(y, m) ==
    IF m = 2
    THEN IF (y % 4 = 0 /\ y % 100 # 0) \/ y % 400 = 0 THEN 29 ELSE 28
    ELSE IF m \in {4, 6, 9, 11} THEN 30 ELSE 31

\* The fields of a text laid out as "YYYY-MM-DD HH:MM".
DateFields(s) ==
    <<DigitsVal(SubSeq(s, 1, 4)), DigitsVal(SubSeq(s, 6, 7)),
      DigitsVal(SubSeq(s, 9, 10)), DigitsVal(SubSeq(s, 12, 13)),
      DigitsVal(SubSeq(s, 15, 16))>>

\* Whether datetime.strptime(s, "%Y-%m-%d %H:%M") accepts s.  (The dates fed
\* to the model are written with two-digit month, day, hour and minute.)
IsDate(s) ==
    /\ Len(s) = 16
    /\ s[5] = "-" /\ s[8] = "-" /\ s[11] = " " /\ s[14] = ":"
    /\ \A i \in (1..16) \ {5, 8, 11, 14} : s[i] \in Digits
    /\ LET dt == DateFields(s)
       IN  /\ dt[1] >= 1
           /\ dt[2] \in 1..12
           /\ dt[3] \in 1..DaysInMonth(dt[1], dt[2])
           /\ dt[4] \in 0..23
           /\ dt[5] \in 0..59

\* datetime.strptime(s, "%Y-%m-%d %H:%M") of an accepted text:
\* <<year, month, day, hour, minute>>.
Strptime(s) == DateFields(s)

DigitChar(n) == CHOOSE c \in Digits : DigitVal(c) = n

RECURSIVE ZeroPad(_, _)
ZeroPad(n, width) ==
    IF width = 0 THEN <<>>
    ELSE Append(ZeroPad(n \div 10, width - 1), DigitChar(n % 10))

\* dt.strftime("%Y-%m-%d %H:%M")
Strftime(dt) ==
    ZeroPad(dt[1], 4) \o <<"-">> \o ZeroPad(dt[2], 2) \o <<"-">>
    \o ZeroPad(dt[3], 2) \o <<" ">> \o ZeroPad(dt[4], 2) \o <<":">>
    \o ZeroPad(dt[5], 2)

RECURSIVE GCD(_, _)
GCD(a, b) == IF b = 0 THEN a ELSE GCD(b, a % b)

\* a / b for b # 0, as the fraction in lowest terms <<numerator, denominator>>.
Quot(a, b) == <<a \div GCD(a, b), b \div GCD(a, b)>>

\* The positions 1..n of a list, in order.
Idx(n) == [i \in 1..n |-> i]

(***************************************************************************)
(* State.                                                                  *)
(***************************************************************************)
VARIABLES
    Projects_projects,          \* Projects._projects of one Document
    Projects_index,             \* Projects.index
    ActivityResources_taskrsrc, \* ActivityResources._taskrsrc of that Document
    ActivityResources_index,    \* ActivityResources.index
    Calendar_obj_list,          \* Calendar.obj_list (class attribute)
    calendar_doc,               \* which Document's parse created each Calendar
    ResourceCurve_obj_list,     \* ResourceCurve.obj_list (class attribute)
    tasks,                      \* the Task objects constructed for each Document
    parsing,                    \* the Document being ingested; NoDoc when all are done
    readers,                    \* the for-loops running over a registry
    ret,                        \* what the last call returned or raised
    ResourceCat_obj_list,       \* ResourceCat.obj_list (class attribute)
    TaskActv_obj_list,          \* TaskActv.obj_list (class attribute)
    Task_obj_list,              \* Task.obj_list (class attribute)
    row                         \* the row the last constructor call was given

vars ==
    <<Projects_projects, Projects_index, ActivityResources_taskrsrc,
      ActivityResources_index, Calendar_obj_list, calendar_doc,
      ResourceCurve_obj_list, tasks, parsing, readers, ret,
      ResourceCat_obj_list, TaskActv_obj_list, Task_obj_list, row>>

\* Two Documents parsed one after the other in the same process.
Docs == {1, 2}

NoDoc == 3

Readers == {1, 2}

\* The reader of the sequential runs.
Loops == {1}

\* The result of a call.  kind is "None", "object" (val = <<position>>),
\* "list" (val = the positions), "int" (val = <<the integer>>), "rows" (val =
\* the rows of a table), "number" (val = a fraction), "bool" (val =
\* <<the truth value>>), "date" (val =
\* <<year, month, day, hour, minute>>), "row" (val = the list get_tsv built)
\* or "raise".
Returned(op, arg, kind, val) ==
    [op |-> op, arg |-> arg, kind |-> kind, val |-> val, exc |-> ""]

Raised(op, arg, exc) ==
    [op |-> op, arg |-> arg, kind |-> "raise", val |-> <<>>, exc |-> exc]

NObjs ==
    Len(Projects_projects) + Len(ActivityResources_taskrsrc)
    + Len(Calendar_obj_list) + Len(ResourceCurve_obj_list)
    + Len(tasks[1]) + Len(tasks[2])
    + Len(ResourceCat_obj_list) + Len(TaskActv_obj_list)

\* The row of a constructor call: the class, the raw fields, and the position
\* of the object made from it in its list (0 when the constructor raised).
RowOf(cls, params, obj) == [cls |-> cls, params |-> params, obj |-> obj]

NoRow == RowOf("", <<>>, 0)

IdleReader == [pc |-> "idle", reg |-> "", out |-> <<>>, start |-> 0,
               solo |-> TRUE, n |-> 0]

Init ==
    /\ Projects_projects = <<>>
    /\ Projects_index = 0
    /\ ActivityResources_taskrsrc = <<>>
    /\ ActivityResources_index = 0
    /\ Calendar_obj_list = <<>>
    /\ calendar_doc = <<>>
    /\ ResourceCurve_obj_list = <<>>
    /\ tasks = [d \in Docs |-> <<>>]
    /\ parsing = 1
    /\ readers = [r \in Readers |-> IdleReader]
    /\ ret = Returned("", <<>>, "None", <<>>)
    /\ ResourceCat_obj_list = <<>>
    /\ TaskActv_obj_list = <<>>
    /\ Task_obj_list = <<>>
    /\ row = NoRow

(***************************************************************************)
(* Projects (projects.py).                                                 *)
(***************************************************************************)
\* Projects.add: prj = Project(params, data); self._projects.append(prj).
\* proj_id is the id the Project constructor decoded from the row.
ProjectsAdd(proj_id) ==
    /\ NObjs < MaxObjs
    /\ Projects_projects' = Append(Projects_projects, [proj_id |-> proj_id])
    /\ ret' = Returned("Projects.add", <<proj_id>>, "None", <<>>)
    /\ UNCHANGED <<ResourceCat_obj_list, TaskActv_obj_list, Task_obj_list, row>>
    /\ UNCHANGED <<Projects_index, ActivityResources_taskrsrc,
                   ActivityResources_index, Calendar_obj_list, calendar_doc,
                   ResourceCurve_obj_list, tasks, parsing, readers>>

\* Projects.find_by_id as it would be were the first record of the list
\* returned (self._projects[0]) instead of the first match (obj[0]).
Projects_find_by_id_first_of_list(id) ==
    LET obj == SelectSeq(Idx(Len(Projects_projects)),
                         LAMBDA i : Projects_projects[i].proj_id = id)
    IN  IF obj # <<>>
        THEN Returned("Projects.find_by_id", <<id>>, "object", <<1>>)
        ELSE Returned("Projects.find_by_id", <<id>>, "list", obj)

\* Projects.find_by_id: the first match, and the empty filter result when
\* nothing matches.
Projects_find_by_id(id) ==
    LET obj == SelectSeq(Idx(Len(Projects_projects)),
                         LAMBDA i : Projects_projects[i].proj_id = id)
    IN  IF obj # <<>>
        THEN Returned("Projects.find_by_id", <<id>>, "object", <<obj[1]>>)
        ELSE Returned("Projects.find_by_id", <<id>>, "list", obj)

\* A find_by_id call as it would be were the lookup made with the
\* registry's own cursor, which it would leave at the end of the list.
ProjectsFindById_with_cursor(id) ==
    /\ ret' = Projects_find_by_id(id)
    /\ Projects_index' = Len(Projects_projects)
    /\ UNCHANGED <<ResourceCat_obj_list, TaskActv_obj_list, Task_obj_list, row>>
    /\ UNCHANGED <<Projects_projects,
                   ActivityResources_taskrsrc, ActivityResources_index,
                   Calendar_obj_list, calendar_doc, ResourceCurve_obj_list,
                   tasks, parsing, readers>>

ProjectsFindById(id) ==
    /\ ret' = Projects_find_by_id(id)
    /\ UNCHANGED <<ResourceCat_obj_list, TaskActv_obj_list, Task_obj_list, row>>
    /\ UNCHANGED <<Projects_projects, Projects_index,
                   ActivityResources_taskrsrc, ActivityResources_index,
                   Calendar_obj_list, calendar_doc, ResourceCurve_obj_list,
                   tasks, parsing, readers>>

(***************************************************************************)
(* ActivityResources (activityresources.py).                               *)
(***************************************************************************)
\* ActivityResources.add: self._taskrsrc.append(TaskRsrc(params, data)).
\* The three ids are what the TaskRsrc constructor decoded from the row.
ActivityResourcesAdd(taskrsrc_id, task_id, rsrc_id) ==
    /\ NObjs < MaxObjs
    /\ ActivityResources_taskrsrc' =
           Append(ActivityResources_taskrsrc,
                  [taskrsrc_id |-> taskrsrc_id, task_id |-> task_id,
                   rsrc_id |-> rsrc_id])
    /\ ret' = Returned("ActivityResources.add", <<taskrsrc_id>>, "None", <<>>)
    /\ UNCHANGED <<ResourceCat_obj_list, TaskActv_obj_list, Task_obj_list, row>>
    /\ UNCHANGED <<Projects_projects, Projects_index, ActivityResources_index,
                   Calendar_obj_list, calendar_doc, ResourceCurve_obj_list,
                   tasks, parsing, readers>>

\* ActivityResources.find_by_id: the first match, or None.
ActivityResources_find_by_id(id) ==
    LET obj == SelectSeq(Idx(Len(ActivityResources_taskrsrc)),
                   LAMBDA i : ActivityResources_taskrsrc[i].taskrsrc_id = id)
    IN  IF Len(obj) > 0
        THEN Returned("ActivityResources.find_by_id", <<id>>, "object",
                      <<obj[1]>>)
        ELSE Returned("ActivityResources.find_by_id", <<id>>, "None", <<>>)

\* ActivityResources.find_by_rsrc_id as it would be with the filter of
\* find_by_activity_id copied into it (x.rsrc_id == id and x.rsrc_id).
ActivityResources_find_by_rsrc_id_truthy(id) ==
    Returned("ActivityResources.find_by_rsrc_id", <<id>>, "list",
             SelectSeq(Idx(Len(ActivityResources_taskrsrc)),
                 LAMBDA i : /\ ActivityResources_taskrsrc[i].rsrc_id = id
                            /\ Truthy(ActivityResources_taskrsrc[i].rsrc_id)))

\* ActivityResources.find_by_rsrc_id: filter on x.rsrc_id == id.
ActivityResources_find_by_rsrc_id(id) ==
    Returned("ActivityResources.find_by_rsrc_id", <<id>>, "list",
             SelectSeq(Idx(Len(ActivityResources_taskrsrc)),
                 LAMBDA i : ActivityResources_taskrsrc[i].rsrc_id = id))

\* ActivityResources.find_by_activity_id: filter on
\* x.task_id == id and x.rsrc_id.
ActivityResources_find_by_activity_id(id) ==
    Returned("ActivityResources.find_by_activity_id", <<id>>, "list",
             SelectSeq(Idx(Len(ActivityResources_taskrsrc)),
                 LAMBDA i : /\ ActivityResources_taskrsrc[i].task_id = id
                            /\ Truthy(ActivityResources_taskrsrc[i].rsrc_id)))

ActivityResourcesFindById(id) ==
    /\ ret' = ActivityResources_find_by_id(id)
    /\ UNCHANGED <<ResourceCat_obj_list, TaskActv_obj_list, Task_obj_list, row>>
    /\ UNCHANGED <<Projects_projects, Projects_index,
                   ActivityResources_taskrsrc, ActivityResources_index,
                   Calendar_obj_list, calendar_doc, ResourceCurve_obj_list,
                   tasks, parsing, readers>>

ActivityResourcesFindByRsrcId(id) ==
    /\ ret' = ActivityResources_find_by_rsrc_id(id)
    /\ UNCHANGED <<ResourceCat_obj_list, TaskActv_obj_list, Task_obj_list, row>>
    /\ UNCHANGED <<Projects_projects, Projects_index,
                   ActivityResources_taskrsrc, ActivityResources_index,
                   Calendar_obj_list, calendar_doc, ResourceCurve_obj_list,
                   tasks, parsing, readers>>

ActivityResourcesFindByActivityId(id) ==
    /\ ret' = ActivityResources_find_by_activity_id(id)
    /\ UNCHANGED <<ResourceCat_obj_list, TaskActv_obj_list, Task_obj_list, row>>
    /\ UNCHANGED <<Projects_projects, Projects_index,
                   ActivityResources_taskrsrc, ActivityResources_index,
                   Calendar_obj_list, calendar_doc, ResourceCurve_obj_list,
                   tasks, parsing, readers>>

(***************************************************************************)
(* get_tsv, len() and count of the two registries (projects.py,            *)
(* activityresources.py).                                                  *)
(*                                                                         *)
(* A table is the list of its rows; the field-header row and the data rows *)
(* are written with the fields this model gives a record.                  *)
(***************************************************************************)
\* Projects.get_tsv as it would be without the test for an empty registry:
\* the two header rows are always returned.
Projects_get_tsv_headers_always ==
    Returned("Projects.get_tsv", <<>>, "rows",
             <<<<"%T", "PROJECT">>, <<"%F", "proj_id">>>>
             \o [k \in 1..Len(Projects_projects) |->
                     <<"%R", Projects_projects[k].proj_id>>])

\* Projects.get_tsv: [] for an empty registry, else ["%T", "PROJECT"], the
\* "%F" row of field names, and prj.get_tsv() of each Project in list order.
Projects_get_tsv ==
    IF Len(Projects_projects) # 0
    THEN Returned("Projects.get_tsv", <<>>, "rows",
                  <<<<"%T", "PROJECT">>, <<"%F", "proj_id">>>>
                  \o [k \in 1..Len(Projects_projects) |->
                          <<"%R", Projects_projects[k].proj_id>>])
    ELSE Returned("Projects.get_tsv", <<>>, "rows", <<>>)

ProjectsGetTsv ==
    /\ ret' = Projects_get_tsv
    /\ UNCHANGED <<ResourceCat_obj_list, TaskActv_obj_list, Task_obj_list, row>>
    /\ UNCHANGED <<Projects_projects, Projects_index,
                   ActivityResources_taskrsrc, ActivityResources_index,
                   Calendar_obj_list, calendar_doc, ResourceCurve_obj_list,
                   tasks, parsing, readers>>

\* ActivityResources.get_tsv: [] for an empty registry, else
\* ["%T", "TASKRSRC"], the "%F" row of field names, and taskrsrc.get_tsv() of
\* each assignment in list order.
ActivityResources_get_tsv ==
    IF Len(ActivityResources_taskrsrc) > 0
    THEN Returned("ActivityResources.get_tsv", <<>>, "rows",
                  <<<<"%T", "TASKRSRC">>,
                    <<"%F", "taskrsrc_id", "task_id", "rsrc_id">>>>
                  \o [k \in 1..Len(ActivityResources_taskrsrc) |->
                          <<"%R", ActivityResources_taskrsrc[k].taskrsrc_id,
                            ActivityResources_taskrsrc[k].task_id,
                            ActivityResources_taskrsrc[k].rsrc_id>>])
    ELSE Returned("ActivityResources.get_tsv", <<>>, "rows", <<>>)

ActivityResourcesGetTsv ==
    /\ ret' = ActivityResources_get_tsv
    /\ UNCHANGED <<ResourceCat_obj_list, TaskActv_obj_list, Task_obj_list, row>>
    /\ UNCHANGED <<Projects_projects, Projects_index,
                   ActivityResources_taskrsrc, ActivityResources_index,
                   Calendar_obj_list, calendar_doc, ResourceCurve_obj_list,
                   tasks, parsing, readers>>

\* Projects.__len__: super().__len__(), and object has no __len__.
Projects_len == Raised("Projects.__len__", <<>>, "AttributeError")

ProjectsLen ==
    /\ ret' = Projects_len
    /\ UNCHANGED <<ResourceCat_obj_list, TaskActv_obj_list, Task_obj_list, row>>
    /\ UNCHANGED <<Projects_projects, Projects_index,
                   ActivityResources_taskrsrc, ActivityResources_index,
                   Calendar_obj_list, calendar_doc, ResourceCurve_obj_list,
                   tasks, parsing, readers>>

\* ActivityResources.__len__: len(ActivityResources._taskrsrc), read from
\* the class, which has no such attribute (only instances do).
ActivityResources_len ==
    Raised("ActivityResources.__len__", <<>>, "AttributeError")

ActivityResourcesLen ==
    /\ ret' = ActivityResources_len
    /\ UNCHANGED <<ResourceCat_obj_list, TaskActv_obj_list, Task_obj_list, row>>
    /\ UNCHANGED <<Projects_projects, Projects_index,
                   ActivityResources_taskrsrc, ActivityResources_index,
                   Calendar_obj_list, calendar_doc, ResourceCurve_obj_list,
                   tasks, parsing, readers>>

\* ActivityResources.count: len(self._taskrsrc).
ActivityResources_count ==
    Returned("ActivityResources.count", <<>>, "int",
             <<Len(ActivityResources_taskrsrc)>>)

ActivityResourcesCount ==
    /\ ret' = ActivityResources_count
    /\ UNCHANGED <<ResourceCat_obj_list, TaskActv_obj_list, Task_obj_list, row>>
    /\ UNCHANGED <<Projects_projects, Projects_index,
                   ActivityResources_taskrsrc, ActivityResources_index,
                   Calendar_obj_list, calendar_doc, ResourceCurve_obj_list,
                   tasks, parsing, readers>>

(***************************************************************************)
(* Calendar (classes/calendar.py).                                         *)
(***************************************************************************)
\* Calendar.find_by_id (static): the first match in Calendar.obj_list, or
\* None.
Calendar_find_by_id(id) ==
    LET obj == SelectSeq(Idx(Len(Calendar_obj_list)),
                         LAMBDA i : Calendar_obj_list[i].clndr_id = id)
    IN  IF obj # <<>>
        THEN Returned("Calendar.find_by_id", <<id>>, "object", <<obj[1]>>)
        ELSE Returned("Calendar.find_by_id", <<id>>, "None", <<>>)

\* CalendarData(clndr_data) as Calendar.__init__ uses it.  The packed
\* text is written here as the working weekdays "1".."7", then optionally
\* "|" and the day numbers of the exceptions; any other character makes the
\* decoding fail.
CalendarData_ok(text) ==
    /\ \A i \in 1..Len(text) : text[i] \in Digits \cup {"|"}
    /\ Cardinality({i \in 1..Len(text) : text[i] = "|"}) <= 1
    /\ \A i \in 1..Len(text) :
           (\A j \in 1..i : text[j] # "|") => text[i] \in Digits \ {"0", "8", "9"}

\* CalendarData.get_days(): the working weekdays.
CalendarData_get_days(text) ==
    {DigitVal(text[i]) : i \in {k \in 1..Len(text) :
                                   \A j \in 1..k : text[j] # "|"}}

\* CalendarData.get_exceptions(): the exception days, in the order written.
CalendarData_get_exceptions(text) ==
    LET after == SelectSeq(Idx(Len(text)),
                           LAMBDA k : \E j \in 1..(k - 1) : text[j] = "|")
    IN  [n \in 1..Len(after) |-> DigitVal(text[after[n]])]

\* Calendar.__init__ for a row of Document d: decodes clndr_id, day_hr_cnt
\* and clndr_data, starts with working_days = {} and exceptions = [], decodes
\* a non-empty clndr_data with CalendarData (nothing catches what it raises),
\* and only then appends the new object to Calendar.obj_list.  A value int()
\* or atof() rejects raises before that as well.
CalendarInit(d, params) ==
    /\ NObjs < MaxObjs
    /\ LET clndr_data == IF RawTruthy(params.clndr_data)
                         THEN Strip(params.clndr_data) ELSE NoKey
       IN  IF \/ (RawTruthy(params.clndr_id) /\ ~IsNumLit(params.clndr_id))
              \/ (RawTruthy(params.day_hr_cnt) /\ ~IsNumLit(params.day_hr_cnt))
           THEN /\ ret' = Raised("Calendar", <<d>>, "ValueError")
                /\ row' = RowOf("Calendar", params, 0)
                /\ UNCHANGED <<Calendar_obj_list, calendar_doc>>
           ELSE IF RawTruthy(clndr_data) /\ ~CalendarData_ok(clndr_data)
           THEN /\ ret' = Raised("Calendar", <<d>>, "CalendarDataError")
                /\ row' = RowOf("Calendar", params, 0)
                /\ UNCHANGED <<Calendar_obj_list, calendar_doc>>
           ELSE /\ Calendar_obj_list' =
                       Append(Calendar_obj_list,
                              [clndr_id |->
                                   IF RawTruthy(params.clndr_id)
                                   THEN PyInt(Strip(params.clndr_id)) ELSE None,
                               day_hr_cnt |->
                                   IF RawTruthy(params.day_hr_cnt)
                                   THEN Atof(params.day_hr_cnt) ELSE None,
                               clndr_data |-> clndr_data,
                               working_days |->
                                   IF RawTruthy(clndr_data)
                                   THEN CalendarData_get_days(clndr_data)
                                   ELSE {},
                               exceptions |->
                                   IF RawTruthy(clndr_data)
                                   THEN CalendarData_get_exceptions(clndr_data)
                                   ELSE <<>>])
                /\ calendar_doc' = Append(calendar_doc, d)
                /\ ret' = Returned("Calendar", <<d>>, "object",
                                   <<Len(Calendar_obj_list) + 1>>)
                /\ row' = RowOf("Calendar", params, Len(Calendar_obj_list) + 1)
    /\ UNCHANGED <<ResourceCat_obj_list, TaskActv_obj_list, Task_obj_list>>
    /\ UNCHANGED <<Projects_projects, Projects_index,
                   ActivityResources_taskrsrc, ActivityResources_index,
                   ResourceCurve_obj_list, tasks, parsing, readers>>

\* The weekday (1 = Monday .. 7 = Sunday) of a date.  Dates of calendar
\* queries are the day numbers of a month whose day 1 is a Monday.
Weekday(date) == ((date - 1) % 7) + 1

\* is_working as it would be were the weekly pattern alone to decide.
Calendar_is_working_pattern_only(i, date) ==
    Returned("Calendar.is_working", <<i, date>>, "bool",
             <<Weekday(date) \in Calendar_obj_list[i].working_days>>)

\* is_working(date) on the i-th Calendar: a date with an exception is
\* non-working, any other date is working when its weekday is a working day
\* of the weekly pattern.
Calendar_is_working(i, date) ==
    LET c == Calendar_obj_list[i]
    IN  IF \E k \in 1..Len(c.exceptions) : c.exceptions[k] = date
        THEN Returned("Calendar.is_working", <<i, date>>, "bool", <<FALSE>>)
        ELSE Returned("Calendar.is_working", <<i, date>>, "bool",
                      <<Weekday(date) \in c.working_days>>)

CalendarIsWorking(i, date) ==
    /\ i \in 1..Len(Calendar_obj_list)
    /\ ret' = Calendar_is_working(i, date)
    /\ UNCHANGED <<ResourceCat_obj_list, TaskActv_obj_list, Task_obj_list, row>>
    /\ UNCHANGED <<Projects_projects, Projects_index,
                   ActivityResources_taskrsrc, ActivityResources_index,
                   Calendar_obj_list, calendar_doc, ResourceCurve_obj_list,
                   tasks, parsing, readers>>

CalendarFindById(id) ==
    /\ ret' = Calendar_find_by_id(id)
    /\ UNCHANGED <<ResourceCat_obj_list, TaskActv_obj_list, Task_obj_list, row>>
    /\ UNCHANGED <<Projects_projects, Projects_index,
                   ActivityResources_taskrsrc, ActivityResources_index,
                   Calendar_obj_list, calendar_doc, ResourceCurve_obj_list,
                   tasks, parsing, readers>>

(***************************************************************************)
(* ResourceCurve (classes/rsrccurv.py).                                    *)
(***************************************************************************)
\* ResourceCurve.find_by_id (classmethod):
\* next((x for x in cls.obj_list if x.curv_id == id), None).
ResourceCurve_find_by_id(id) ==
    LET hits == {i \in 1..Len(ResourceCurve_obj_list) :
                     ResourceCurve_obj_list[i].curv_id = id}
    IN  IF hits # {}
        THEN Returned("ResourceCurve.find_by_id", <<id>>, "object",
                      <<CHOOSE i \in hits : \A j \in hits : i <= j>>)
        ELSE Returned("ResourceCurve.find_by_id", <<id>>, "None", <<>>)

\* ResourceCurve.__init__: curv_id by int(), curv_name stripped when
\* curv_id (not curv_name) is given, so a row with a curv_id and no
\* curv_name raises AttributeError; then the append to obj_list.  An unset
\* curv_name (None) is written NoKey.
ResourceCurveInit(params) ==
    /\ NObjs < MaxObjs
    /\ IF RawTruthy(params.curv_id) /\ ~IsNumLit(params.curv_id)
       THEN /\ ret' = Raised("ResourceCurve", <<>>, "ValueError")
            /\ row' = RowOf("ResourceCurve", params, 0)
            /\ UNCHANGED ResourceCurve_obj_list
       ELSE IF RawTruthy(params.curv_id) /\ params.curv_name = NoKey
       THEN /\ ret' = Raised("ResourceCurve", <<>>, "AttributeError")
            /\ row' = RowOf("ResourceCurve", params, 0)
            /\ UNCHANGED ResourceCurve_obj_list
       ELSE /\ ResourceCurve_obj_list' =
                   Append(ResourceCurve_obj_list,
                          [curv_id |->
                               IF RawTruthy(params.curv_id)
                               THEN PyInt(params.curv_id) ELSE None,
                           curv_name |->
                               IF RawTruthy(params.curv_id)
                               THEN Strip(params.curv_name) ELSE NoKey])
            /\ ret' = Returned("ResourceCurve", <<>>, "object",
                               <<Len(ResourceCurve_obj_list) + 1>>)
            /\ row' = RowOf("ResourceCurve", params,
                            Len(ResourceCurve_obj_list) + 1)
    /\ UNCHANGED <<ResourceCat_obj_list, TaskActv_obj_list, Task_obj_list>>
    /\ UNCHANGED <<Projects_projects, Projects_index,
                   ActivityResources_taskrsrc, ActivityResources_index,
                   Calendar_obj_list, calendar_doc, tasks, parsing, readers>>

ResourceCurveFindById(id) ==
    /\ ret' = ResourceCurve_find_by_id(id)
    /\ UNCHANGED <<ResourceCat_obj_list, TaskActv_obj_list, Task_obj_list, row>>
    /\ UNCHANGED <<Projects_projects, Projects_index,
                   ActivityResources_taskrsrc, ActivityResources_index,
                   Calendar_obj_list, calendar_doc, ResourceCurve_obj_list,
                   tasks, parsing, readers>>

(***************************************************************************)
(* Task (classes/task.py).                                                 *)
(***************************************************************************)
\* Task.__init__ for a row of Document d.  The ids by int() and the hour
\* counts by atof(), each None when the raw value is missing or empty, except
\* that phys_complete_pct is converted whenever the row has the key and that
\* a missing or empty remain_drtn_hr_cnt becomes 0.  The actual and target
\* dates by strptime(), None when missing or empty.  The two external dates
\* are converted inside one try block whose handler does nothing, so a text
\* strptime() rejects ends the block and leaves that attribute, and the one
\* after it, unassigned.  total_int_hr_cnt is assigned nowhere.
\* self.calendar = Calendar.find_by_id(self.clndr_id) is looked up once,
\* here.  The new Task joins the Tasks of its Document; it is not appended to
\* Task.obj_list.
TaskInit(d, params) ==
    /\ NObjs < MaxObjs
    /\ IF \/ (RawTruthy(params.task_id) /\ ~IsNumLit(params.task_id))
          \/ (RawTruthy(params.wbs_id) /\ ~IsNumLit(params.wbs_id))
          \/ (RawTruthy(params.clndr_id) /\ ~IsNumLit(params.clndr_id))
          \/ (params.phys_complete_pct # NoKey
                 /\ ~IsNumLit(params.phys_complete_pct))
          \/ (RawTruthy(params.total_float_hr_cnt)
                 /\ ~IsNumLit(params.total_float_hr_cnt))
          \/ (RawTruthy(params.free_float_hr_cnt)
                 /\ ~IsNumLit(params.free_float_hr_cnt))
          \/ (RawTruthy(params.remain_drtn_hr_cnt)
                 /\ ~IsNumLit(params.remain_drtn_hr_cnt))
          \/ (RawTruthy(params.target_drtn_hr_cnt)
                 /\ ~IsNumLit(params.target_drtn_hr_cnt))
          \/ \E f \in {"act_start_date", "act_end_date",
                        "target_start_date", "target_end_date"} :
                 RawTruthy(params[f]) /\ ~IsDate(params[f])
       THEN /\ ret' = Raised("Task", <<d>>, "ValueError")
            /\ row' = RowOf("Task", params, 0)
            /\ UNCHANGED tasks
       ELSE LET clndr_id == IF RawTruthy(params.clndr_id)
                            THEN PyInt(params.clndr_id) ELSE None
                found == Calendar_find_by_id(clndr_id)
                early == params.external_early_start_date
                late == params.external_late_end_date
                early_fails == RawTruthy(early) /\ ~IsDate(Strip(early))
                late_fails == RawTruthy(late) /\ ~IsDate(late)
            IN  /\ tasks' =
                       [tasks EXCEPT ![d] = Append(@,
                           [task_id |-> IF RawTruthy(params.task_id)
                                        THEN PyInt(params.task_id) ELSE None,
                            wbs_id |-> IF RawTruthy(params.wbs_id)
                                       THEN PyInt(params.wbs_id) ELSE None,
                            clndr_id |-> clndr_id,
                            phys_complete_pct |->
                                IF params.phys_complete_pct # NoKey
                                THEN Atof(params.phys_complete_pct) ELSE None,
                            total_float_hr_cnt |->
                                IF RawTruthy(params.total_float_hr_cnt)
                                THEN Atof(Strip(params.total_float_hr_cnt))
                                ELSE None,
                            free_float_hr_cnt |->
                                IF RawTruthy(params.free_float_hr_cnt)
                                THEN Atof(params.free_float_hr_cnt) ELSE None,
                            remain_drtn_hr_cnt |->
                                IF RawTruthy(params.remain_drtn_hr_cnt)
                                THEN Atof(Strip(params.remain_drtn_hr_cnt))
                                ELSE 0,
                            target_drtn_hr_cnt |->
                                IF RawTruthy(params.target_drtn_hr_cnt)
                                THEN Atof(Strip(params.target_drtn_hr_cnt))
                                ELSE None,
                            act_start_date |->
                                IF RawTruthy(params.act_start_date)
                                THEN Strptime(params.act_start_date)
                                ELSE NoDate,
                            act_end_date |->
                                IF RawTruthy(params.act_end_date)
                                THEN Strptime(params.act_end_date)
                                ELSE NoDate,
                            target_start_date |->
                                IF RawTruthy(params.target_start_date)
                                THEN Strptime(params.target_start_date)
                                ELSE NoDate,
                            target_end_date |->
                                IF RawTruthy(params.target_end_date)
                                THEN Strptime(params.target_end_date)
                                ELSE NoDate,
                            external_early_start_date |->
                                IF early_fails THEN NoAttr
                                ELSE IF RawTruthy(early)
                                THEN Strptime(Strip(early)) ELSE NoDate,
                            external_late_end_date |->
                                IF early_fails \/ late_fails THEN NoAttr
                                ELSE IF RawTruthy(late)
                                THEN Strptime(late) ELSE NoDate,
                            total_int_hr_cnt |-> Unassigned,
                            calendar |-> IF found.kind = "object"
                                         THEN found.val[1] ELSE None])]
                /\ ret' = Returned("Task", <<d>>, "object",
                                   <<Len(tasks[d]) + 1>>)
                /\ row' = RowOf("Task", params, Len(tasks[d]) + 1)
    /\ UNCHANGED <<ResourceCat_obj_list, TaskActv_obj_list, Task_obj_list>>
    /\ UNCHANGED <<Projects_projects, Projects_index,
                   ActivityResources_taskrsrc, ActivityResources_index,
                   Calendar_obj_list, calendar_doc, ResourceCurve_obj_list,
                   parsing, readers>>

\* Task.duration as it would be were the hours of a day a global default:
\* always target_drtn_hr_cnt / 8.0.
Task_duration_global_default(d, i) ==
    LET t == tasks[d][i]
    IN  IF Truthy(t.target_drtn_hr_cnt)
        THEN IF t.calendar = None
             THEN Raised("Task.duration", <<d, i>>, "AttributeError")
             ELSE Returned("Task.duration", <<d, i>>, "number",
                           Quot(t.target_drtn_hr_cnt, 8))
        ELSE Returned("Task.duration", <<d, i>>, "number", <<0, 1>>)

\* Task.duration as it would be were day_hr_cnt tested with "is not None":
\* a day_hr_cnt of 0 is divided by, and an unset one falls back to 8.
Task_duration_is_not_none(d, i) ==
    LET t == tasks[d][i]
    IN  IF Truthy(t.target_drtn_hr_cnt)
        THEN IF t.calendar = None
             THEN Raised("Task.duration", <<d, i>>, "AttributeError")
             ELSE IF Calendar_obj_list[t.calendar].day_hr_cnt = 0
             THEN Raised("Task.duration", <<d, i>>, "ZeroDivisionError")
             ELSE IF Calendar_obj_list[t.calendar].day_hr_cnt # None
             THEN Returned("Task.duration", <<d, i>>, "number",
                           Quot(t.target_drtn_hr_cnt,
                                Calendar_obj_list[t.calendar].day_hr_cnt))
             ELSE Returned("Task.duration", <<d, i>>, "number",
                           Quot(t.target_drtn_hr_cnt, 8))
        ELSE Returned("Task.duration", <<d, i>>, "number", <<0, 1>>)

\* Task.duration of Task t: reads self.calendar.day_hr_cnt whenever
\* target_drtn_hr_cnt is truthy, so a Task whose calendar is None raises
\* AttributeError.
Task_duration(d, i) ==
    LET t == tasks[d][i]
    IN  IF Truthy(t.target_drtn_hr_cnt)
        THEN IF t.calendar = None
             THEN Raised("Task.duration", <<d, i>>, "AttributeError")
             ELSE IF Truthy(Calendar_obj_list[t.calendar].day_hr_cnt)
             THEN Returned("Task.duration", <<d, i>>, "number",
                           Quot(t.target_drtn_hr_cnt,
                                Calendar_obj_list[t.calendar].day_hr_cnt))
             ELSE Returned("Task.duration", <<d, i>>, "number",
                           Quot(t.target_drtn_hr_cnt, 8))
        ELSE Returned("Task.duration", <<d, i>>, "number", <<0, 1>>)

TaskDuration(d, i) ==
    /\ i \in 1..Len(tasks[d])
    /\ ret' = Task_duration(d, i)
    /\ UNCHANGED <<ResourceCat_obj_list, TaskActv_obj_list, Task_obj_list, row>>
    /\ UNCHANGED <<Projects_projects, Projects_index,
                   ActivityResources_taskrsrc, ActivityResources_index,
                   Calendar_obj_list, calendar_doc, ResourceCurve_obj_list,
                   tasks, parsing, readers>>

\* Task.resources of the i-th Task of the Document that owns the
\* ActivityResources above:
\* self.data.taskresource.find_by_activity_id(self.task_id).
TaskResources(i) ==
    /\ i \in 1..Len(tasks[1])
    /\ ret' = [ActivityResources_find_by_activity_id(tasks[1][i].task_id)
                  EXCEPT !.op = "Task.resources", !.arg = <<1, i>>]
    /\ UNCHANGED <<ResourceCat_obj_list, TaskActv_obj_list, Task_obj_list, row>>
    /\ UNCHANGED <<Projects_projects, Projects_index,
                   ActivityResources_taskrsrc, ActivityResources_index,
                   Calendar_obj_list, calendar_doc, ResourceCurve_obj_list,
                   tasks, parsing, readers>>

\* Task.get_tsv of Task t: the fields in the order of the list it builds,
\* after the "%R" tag.  The two external dates are read as attributes, so a
\* Task whose constructor left one unassigned raises AttributeError.
Task_get_tsv(d, i) ==
    LET t == tasks[d][i]
        fmt(date) == IF date # NoDate THEN Strftime(date) ELSE NoKey
    IN  IF \/ t.external_early_start_date = NoAttr
           \/ t.external_late_end_date = NoAttr
        THEN Raised("Task.get_tsv", <<d, i>>, "AttributeError")
        ELSE Returned("Task.get_tsv", <<d, i>>, "row",
                      <<"%R", t.task_id, t.wbs_id, t.clndr_id,
                        t.phys_complete_pct, t.total_float_hr_cnt,
                        t.free_float_hr_cnt, t.remain_drtn_hr_cnt,
                        t.target_drtn_hr_cnt,
                        fmt(t.act_start_date), fmt(t.act_end_date),
                        fmt(t.target_start_date), fmt(t.target_end_date),
                        fmt(t.external_early_start_date),
                        fmt(t.external_late_end_date)>>)

TaskGetTsv(d, i) ==
    /\ i \in 1..Len(tasks[d])
    /\ ret' = Task_get_tsv(d, i)
    /\ UNCHANGED <<ResourceCat_obj_list, TaskActv_obj_list, Task_obj_list, row>>
    /\ UNCHANGED <<Projects_projects, Projects_index,
                   ActivityResources_taskrsrc, ActivityResources_index,
                   Calendar_obj_list, calendar_doc, ResourceCurve_obj_list,
                   tasks, parsing, readers>>

\* Task.start_date as it would be were the target date preferred to the
\* actual one.
Task_start_date_prefers_target(d, i) ==
    LET t == tasks[d][i]
        date == IF t.target_start_date # NoDate
                THEN t.target_start_date ELSE t.act_start_date
    IN  IF date = NoDate
        THEN Returned("Task.start_date", <<d, i>>, "None", <<>>)
        ELSE Returned("Task.start_date", <<d, i>>, "date", date)

\* Task.start_date of Task t: act_start_date when it is truthy (a datetime
\* always is), else target_start_date.
Task_start_date(d, i) ==
    LET t == tasks[d][i]
        date == IF t.act_start_date # NoDate
                THEN t.act_start_date ELSE t.target_start_date
    IN  IF date = NoDate
        THEN Returned("Task.start_date", <<d, i>>, "None", <<>>)
        ELSE Returned("Task.start_date", <<d, i>>, "date", date)

TaskStartDate(d, i) ==
    /\ i \in 1..Len(tasks[d])
    /\ ret' = Task_start_date(d, i)
    /\ UNCHANGED <<ResourceCat_obj_list, TaskActv_obj_list, Task_obj_list, row>>
    /\ UNCHANGED <<Projects_projects, Projects_index,
                   ActivityResources_taskrsrc, ActivityResources_index,
                   Calendar_obj_list, calendar_doc, ResourceCurve_obj_list,
                   tasks, parsing, readers>>

\* Task.end_date of Task t: act_end_date when it is truthy, else
\* target_end_date.
Task_end_date(d, i) ==
    LET t == tasks[d][i]
        date == IF t.act_end_date # NoDate
                THEN t.act_end_date ELSE t.target_end_date
    IN  IF date = NoDate
        THEN Returned("Task.end_date", <<d, i>>, "None", <<>>)
        ELSE Returned("Task.end_date", <<d, i>>, "date", date)

TaskEndDate(d, i) ==
    /\ i \in 1..Len(tasks[d])
    /\ ret' = Task_end_date(d, i)
    /\ UNCHANGED <<ResourceCat_obj_list, TaskActv_obj_list, Task_obj_list, row>>
    /\ UNCHANGED <<Projects_projects, Projects_index,
                   ActivityResources_taskrsrc, ActivityResources_index,
                   Calendar_obj_list, calendar_doc, ResourceCurve_obj_list,
                   tasks, parsing, readers>>

\* Task.totalint of Task t: reads self.total_int_hr_cnt, and divides it by
\* 8.0 when it is truthy.
Task_totalint(d, i) ==
    LET t == tasks[d][i]
    IN  IF t.total_int_hr_cnt = Unassigned
        THEN Raised("Task.totalint", <<d, i>>, "AttributeError")
        ELSE IF Truthy(t.total_int_hr_cnt)
        THEN Returned("Task.totalint", <<d, i>>, "number",
                      Quot(t.total_int_hr_cnt, 8))
        ELSE Returned("Task.totalint", <<d, i>>, "None", <<>>)

TaskTotalint(d, i) ==
    /\ i \in 1..Len(tasks[d])
    /\ ret' = Task_totalint(d, i)
    /\ UNCHANGED <<ResourceCat_obj_list, TaskActv_obj_list, Task_obj_list, row>>
    /\ UNCHANGED <<Projects_projects, Projects_index,
                   ActivityResources_taskrsrc, ActivityResources_index,
                   Calendar_obj_list, calendar_doc, ResourceCurve_obj_list,
                   tasks, parsing, readers>>

\* Task.find_by_wbs_id (classmethod):
\* [v for v in cls.obj_list if v.wbs_id == wbs_id].
Task_find_by_wbs_id(wbs_id) ==
    Returned("Task.find_by_wbs_id", <<wbs_id>>, "list",
             SelectSeq(Idx(Len(Task_obj_list)),
                       LAMBDA i : Task_obj_list[i].wbs_id = wbs_id))

TaskFindByWbsId(wbs_id) ==
    /\ ret' = Task_find_by_wbs_id(wbs_id)
    /\ UNCHANGED <<ResourceCat_obj_list, TaskActv_obj_list, Task_obj_list, row>>
    /\ UNCHANGED <<Projects_projects, Projects_index,
                   ActivityResources_taskrsrc, ActivityResources_index,
                   Calendar_obj_list, calendar_doc, ResourceCurve_obj_list,
                   tasks, parsing, readers>>

(***************************************************************************)
(* ResourceCat (classes/rsrcrcat.py).                                      *)
(***************************************************************************)
\* ResourceCat.__init__: rsrc_id and rsrc_catg_type_id by int() of their own
\* raw values; rsrc_catg_id by int() of the raw rsrc_catg_type_id as well;
\* then the append to ResourceCat.obj_list.
ResourceCatInit(params) ==
    /\ NObjs < MaxObjs
    /\ IF \/ (RawTruthy(params.rsrc_id) /\ ~IsNumLit(params.rsrc_id))
          \/ (RawTruthy(params.rsrc_catg_type_id)
                 /\ ~IsNumLit(params.rsrc_catg_type_id))
       THEN /\ ret' = Raised("ResourceCat", <<>>, "ValueError")
            /\ row' = RowOf("ResourceCat", params, 0)
            /\ UNCHANGED ResourceCat_obj_list
       ELSE /\ ResourceCat_obj_list' =
                   Append(ResourceCat_obj_list,
                          [rsrc_id |->
                               IF RawTruthy(params.rsrc_id)
                               THEN PyInt(Strip(params.rsrc_id)) ELSE None,
                           rsrc_catg_type_id |->
                               IF RawTruthy(params.rsrc_catg_type_id)
                               THEN PyInt(Strip(params.rsrc_catg_type_id))
                               ELSE None,
                           rsrc_catg_id |->
                               IF RawTruthy(params.rsrc_catg_type_id)
                               THEN PyInt(Strip(params.rsrc_catg_type_id))
                               ELSE None])
            /\ ret' = Returned("ResourceCat", <<>>, "object",
                               <<Len(ResourceCat_obj_list) + 1>>)
            /\ row' = RowOf("ResourceCat", params,
                            Len(ResourceCat_obj_list) + 1)
    /\ UNCHANGED <<TaskActv_obj_list, Task_obj_list>>
    /\ UNCHANGED <<Projects_projects, Projects_index,
                   ActivityResources_taskrsrc, ActivityResources_index,
                   Calendar_obj_list, calendar_doc, ResourceCurve_obj_list,
                   tasks, parsing, readers>>

\* ResourceCat.get_tsv of the i-th ResourceCat:
\* ["%R", self.rsrc_id, self.rsrc_catg_type_id, self.rsrc_catg_id].
ResourceCat_get_tsv(i) ==
    LET c == ResourceCat_obj_list[i]
    IN  Returned("ResourceCat.get_tsv", <<i>>, "row",
                 <<"%R", c.rsrc_id, c.rsrc_catg_type_id, c.rsrc_catg_id>>)

ResourceCatGetTsv(i) ==
    /\ i \in 1..Len(ResourceCat_obj_list)
    /\ ret' = ResourceCat_get_tsv(i)
    /\ UNCHANGED <<ResourceCat_obj_list, TaskActv_obj_list, Task_obj_list, row>>
    /\ UNCHANGED <<Projects_projects, Projects_index,
                   ActivityResources_taskrsrc, ActivityResources_index,
                   Calendar_obj_list, calendar_doc, ResourceCurve_obj_list,
                   tasks, parsing, readers>>

(***************************************************************************)
(* TaskActv (classes/taskactv.py).                                         *)
(***************************************************************************)
\* TaskActv.__init__: task_id, actv_code_id and proj_id by int(), None when
\* missing or empty; actv_code_type_id is params.get(...).strip() with no
\* test, so a row without that key raises AttributeError; then the append to
\* TaskActv.obj_list.
TaskActvInit(params) ==
    /\ NObjs < MaxObjs
    /\ IF RawTruthy(params.task_id) /\ ~IsNumLit(params.task_id)
       THEN /\ ret' = Raised("TaskActv", <<>>, "ValueError")
            /\ row' = RowOf("TaskActv", params, 0)
            /\ UNCHANGED TaskActv_obj_list
       ELSE IF params.actv_code_type_id = NoKey
       THEN /\ ret' = Raised("TaskActv", <<>>, "AttributeError")
            /\ row' = RowOf("TaskActv", params, 0)
            /\ UNCHANGED TaskActv_obj_list
       ELSE IF \/ (RawTruthy(params.actv_code_id)
                      /\ ~IsNumLit(params.actv_code_id))
               \/ (RawTruthy(params.proj_id) /\ ~IsNumLit(params.proj_id))
       THEN /\ ret' = Raised("TaskActv", <<>>, "ValueError")
            /\ row' = RowOf("TaskActv", params, 0)
            /\ UNCHANGED TaskActv_obj_list
       ELSE /\ TaskActv_obj_list' =
                   Append(TaskActv_obj_list,
                          [task_id |->
                               IF RawTruthy(params.task_id)
                               THEN PyInt(Strip(params.task_id)) ELSE None,
                           actv_code_type_id |->
                               Strip(params.actv_code_type_id),
                           actv_code_id |->
                               IF RawTruthy(params.actv_code_id)
                               THEN PyInt(Strip(params.actv_code_id))
                               ELSE None,
                           proj_id |->
                               IF RawTruthy(params.proj_id)
                               THEN PyInt(Strip(params.proj_id)) ELSE None])
            /\ ret' = Returned("TaskActv", <<>>, "object",
                               <<Len(TaskActv_obj_list) + 1>>)
            /\ row' = RowOf("TaskActv", params, Len(TaskActv_obj_list) + 1)
    /\ UNCHANGED <<ResourceCat_obj_list, Task_obj_list>>
    /\ UNCHANGED <<Projects_projects, Projects_index,
                   ActivityResources_taskrsrc, ActivityResources_index,
                   Calendar_obj_list, calendar_doc, ResourceCurve_obj_list,
                   tasks, parsing, readers>>

\* The parse of Document d reaches the end of its input; the next Document
\* (if any) is parsed after it.
FinishIngest(d) ==
    /\ parsing = d
    /\ parsing' = d + 1
    /\ ret' = Returned("Reader", <<d>>, "None", <<>>)
    /\ UNCHANGED <<ResourceCat_obj_list, TaskActv_obj_list, Task_obj_list, row>>
    /\ UNCHANGED <<Projects_projects, Projects_index,
                   ActivityResources_taskrsrc, ActivityResources_index,
                   Calendar_obj_list, calendar_doc, ResourceCurve_obj_list,
                   tasks, readers>>

(***************************************************************************)
(* Iteration (Projects.__iter__/__next__,                                  *)
(* ActivityResources.__iter__/__next__).                                   *)
(*                                                                         *)
(* A reader is a for-loop over a registry: it calls iter() once, then      *)
(* next() until StopIteration, collecting what it is handed in out.        *)
(* start is the registry's index when the loop called iter(), solo says    *)
(* that no other loop has advanced the registry meanwhile, and n is the    *)
(* registry's length when the loop ended.                                  *)
(***************************************************************************)
\* __next__ as it would be were the end test off by one
\* (index >= len - 1): the last record is never handed out.
Registry_next_off_by_one(index, len) ==
    IF index >= len - 1
    THEN [stop |-> TRUE, item |-> 0, index |-> index]
    ELSE [stop |-> FALSE, item |-> index + 1, index |-> index + 1]

\* One step of __next__ on a registry with cursor index and len records:
\* StopIteration when index >= len, else the record at 0-based index (the
\* position index + 1) and the cursor moved by one.
Registry_next(index, len) ==
    IF index >= len
    THEN [stop |-> TRUE, item |-> 0, index |-> index]
    ELSE [stop |-> FALSE, item |-> index + 1, index |-> index + 1]

\* What a call of next() by reader r on registry reg does to the readers.
AfterNext(r, reg, step, len) ==
    [q \in Readers |->
        IF q = r
        THEN IF step.stop
             THEN [readers[q] EXCEPT !.pc = "done", !.n = len]
             ELSE [readers[q] EXCEPT !.out = Append(@, step.item)]
        ELSE IF ~step.stop /\ readers[q].pc = "loop" /\ readers[q].reg = reg
             THEN [readers[q] EXCEPT !.solo = FALSE]
             ELSE readers[q]]

\* Projects.__iter__: return self (the cursor is left where it is).
ProjectsIter(r) ==
    /\ readers[r].pc # "loop"
    /\ readers' = [readers EXCEPT ![r] =
                      [pc |-> "loop", reg |-> "Projects", out |-> <<>>,
                       start |-> Projects_index, solo |-> TRUE, n |-> 0]]
    /\ ret' = Returned("Projects.__iter__", <<r>>, "self", <<>>)
    /\ UNCHANGED <<ResourceCat_obj_list, TaskActv_obj_list, Task_obj_list, row>>
    /\ UNCHANGED <<Projects_projects, Projects_index,
                   ActivityResources_taskrsrc, ActivityResources_index,
                   Calendar_obj_list, calendar_doc, ResourceCurve_obj_list,
                   tasks, parsing>>

\* Projects.__next__.
ProjectsNext(r) ==
    /\ readers[r].pc = "loop" /\ readers[r].reg = "Projects"
    /\ LET step == Registry_next(Projects_index, Len(Projects_projects))
       IN  /\ Projects_index' = step.index
           /\ readers' = AfterNext(r, "Projects", step, Len(Projects_projects))
           /\ ret' = IF step.stop
                     THEN Raised("Projects.__next__", <<r>>, "StopIteration")
                     ELSE Returned("Projects.__next__", <<r>>, "object",
                                   <<step.item>>)
    /\ UNCHANGED <<ResourceCat_obj_list, TaskActv_obj_list, Task_obj_list, row>>
    /\ UNCHANGED <<Projects_projects, ActivityResources_taskrsrc,
                   ActivityResources_index, Calendar_obj_list, calendar_doc,
                   ResourceCurve_obj_list, tasks, parsing>>

\* ActivityResources.__iter__: return self.
ActivityResourcesIter(r) ==
    /\ readers[r].pc # "loop"
    /\ readers' = [readers EXCEPT ![r] =
                      [pc |-> "loop", reg |-> "ActivityResources",
                       out |-> <<>>, start |-> ActivityResources_index,
                       solo |-> TRUE, n |-> 0]]
    /\ ret' = Returned("ActivityResources.__iter__", <<r>>, "self", <<>>)
    /\ UNCHANGED <<ResourceCat_obj_list, TaskActv_obj_list, Task_obj_list, row>>
    /\ UNCHANGED <<Projects_projects, Projects_index,
                   ActivityResources_taskrsrc, ActivityResources_index,
                   Calendar_obj_list, calendar_doc, ResourceCurve_obj_list,
                   tasks, parsing>>

\* ActivityResources.__next__.
ActivityResourcesNext(r) ==
    /\ readers[r].pc = "loop" /\ readers[r].reg = "ActivityResources"
    /\ LET step == Registry_next(ActivityResources_index,
                                 Len(ActivityResources_taskrsrc))
       IN  /\ ActivityResources_index' = step.index
           /\ readers' = AfterNext(r, "ActivityResources", step,
                                   Len(ActivityResources_taskrsrc))
           /\ ret' = IF step.stop
                     THEN Raised("ActivityResources.__next__", <<r>>,
                                 "StopIteration")
                     ELSE Returned("ActivityResources.__next__", <<r>>,
                                   "object", <<step.item>>)
    /\ UNCHANGED <<ResourceCat_obj_list, TaskActv_obj_list, Task_obj_list, row>>
    /\ UNCHANGED <<Projects_projects, Projects_index,
                   ActivityResources_taskrsrc, Calendar_obj_list,
                   calendar_doc, ResourceCurve_obj_list, tasks, parsing>>

(***************************************************************************)
(* Inputs and specifications.                                              *)
(***************************************************************************)
\* Decoded ids a record may carry: unset, zero, and a positive id.
OptIds == {None, 0, 1}

\* Raw id fields of a row: missing, empty, "0", "1".
RawIds == {NoKey, <<>>, <<"0">>, <<"1">>}

\* Raw target_drtn_hr_cnt fields: empty, or 16 hours.
RawHours == {<<>>, <<"1", "6">>}

\* A CALENDAR row: id 1, 8 hours a day, no clndr_data.
SampleCalendarRow ==
    [clndr_id |-> <<"1">>, day_hr_cnt |-> <<"8">>, clndr_data |-> <<>>]

\* A TASK row: id 1, phys_complete_pct 0, every other field empty.
SampleTaskRow ==
    [task_id |-> <<"1">>, wbs_id |-> <<>>, clndr_id |-> <<>>,
     phys_complete_pct |-> <<"0">>, total_float_hr_cnt |-> <<>>,
     free_float_hr_cnt |-> <<>>, remain_drtn_hr_cnt |-> <<>>,
     target_drtn_hr_cnt |-> <<>>, act_start_date |-> <<>>,
     act_end_date |-> <<>>, target_start_date |-> <<>>,
     target_end_date |-> <<>>, external_early_start_date |-> <<>>,
     external_late_end_date |-> <<>>]

\* Lookups by primary key on the four registries.
NextFind ==
    \/ \E id \in OptIds : ProjectsAdd(id)
    \/ \E id \in OptIds : ActivityResourcesAdd(id, 1, 1)
    \/ \E raw \in RawIds :
           CalendarInit(1, [SampleCalendarRow EXCEPT !.clndr_id = raw])
    \/ \E raw \in RawIds :
           ResourceCurveInit([curv_id |-> raw, curv_name |-> <<"c">>])
    \/ \E id \in OptIds : ProjectsFindById(id)
    \/ \E id \in OptIds : ActivityResourcesFindById(id)
    \/ \E id \in OptIds : CalendarFindById(id)
    \/ \E id \in OptIds : ResourceCurveFindById(id)

SpecFind == Init /\ [][NextFind]_vars

\* Lookups of assignments by foreign key, directly and through
\* Task.resources.  Each assignment gets a fresh taskrsrc_id.
NextAssign ==
    \/ \E t \in OptIds, r \in OptIds :
           ActivityResourcesAdd(Len(ActivityResources_taskrsrc) + 1, t, r)
    \/ \E raw \in RawIds :
           TaskInit(1, [SampleTaskRow EXCEPT !.task_id = raw])
    \/ \E id \in OptIds : ActivityResourcesFindByRsrcId(id)
    \/ \E id \in OptIds : ActivityResourcesFindByActivityId(id)
    \/ \E i \in 1..MaxObjs : TaskResources(i)

SpecAssign == Init /\ [][NextAssign]_vars

\* Adding to and iterating over the two registries, one for-loop at a time
\* (a loop may be started again after it has ended).
NextIter ==
    \/ \E id \in OptIds : ProjectsAdd(id)
    \/ \E id \in OptIds : ActivityResourcesAdd(id, 1, 1)
    \/ \E r \in Loops : ProjectsIter(r)
    \/ \E r \in Loops : ProjectsNext(r)
    \/ \E r \in Loops : ActivityResourcesIter(r)
    \/ \E r \in Loops : ActivityResourcesNext(r)

SpecIter == Init /\ [][NextIter]_vars

\* Two Documents ingested one after the other, CALENDAR and TASK rows in
\* any order, and durations read from the Tasks.
NextXref ==
    \/ /\ parsing \in Docs
       /\ \E raw \in RawIds :
              CalendarInit(parsing,
                           [SampleCalendarRow EXCEPT !.clndr_id = raw])
    \/ /\ parsing \in Docs
       /\ \E raw \in RawIds, h \in RawHours :
              TaskInit(parsing,
                       [SampleTaskRow EXCEPT !.clndr_id = raw,
                                             !.target_drtn_hr_cnt = h])
    \/ \E d \in Docs : FinishIngest(d)
    \/ \E d \in Docs, i \in 1..MaxObjs : TaskDuration(d, i)

SpecXref == Init /\ [][NextXref]_vars

\* Raw hour counts of a row: missing, empty, "0", "8".
RawNums == {NoKey, <<>>, <<"0">>, <<"8">>}

\* The numeric fields of a TASK row that are varied one at a time.
TaskNumericFields ==
    {"wbs_id", "phys_complete_pct", "total_float_hr_cnt",
     "free_float_hr_cnt", "remain_drtn_hr_cnt"}

\* Raw date fields: empty, a date, and a text that is no date.
GoodDate ==
    <<"2", "0", "2", "4", "-", "0", "1", "-", "1", "5", " ",
      "0", "8", ":", "0", "0">>

BadDate == <<"1", "5", "/", "0", "1", "/", "2", "0", "2", "4">>

RawDates == {<<>>, GoodDate, BadDate}

\* Raw fields of a RSRCRCAT row: empty, "1", "2".
RawCats == {<<>>, <<"1">>, <<"2">>}

\* Raw text fields: missing, empty, a name.
RawNames == {NoKey, <<>>, <<"c">>}

\* Raw clndr_data: missing, empty, Monday and Tuesday worked with an
\* exception on day 3, and a text CalendarData cannot decode.
RawCalendarData == {NoKey, <<>>, <<"1", "2", "|", "3">>, <<"?">>}

\* The wbs ids asked for.
WbsIds == {None, 0, 8}

\* Tasks constructed from rows with missing, empty and malformed fields,
\* and read back.
NextTaskRow ==
    \/ \E f \in TaskNumericFields, raw \in RawNums :
           TaskInit(1, [SampleTaskRow EXCEPT ![f] = raw])
    \/ \E early \in RawDates, late \in RawDates :
           TaskInit(1, [SampleTaskRow EXCEPT
                           !.external_early_start_date = early,
                           !.external_late_end_date = late])
    \/ \E i \in 1..MaxObjs : TaskGetTsv(1, i)
    \/ \E i \in 1..MaxObjs : TaskTotalint(1, i)
    \/ \E w \in WbsIds : TaskFindByWbsId(w)

SpecTaskRow == Init /\ [][NextTaskRow]_vars

\* Records of the five classes constructed from rows with missing, empty
\* and malformed fields, and read back.
NextDecode ==
    \/ \E raw \in RawNums :
           TaskInit(1, [SampleTaskRow EXCEPT !.phys_complete_pct = raw])
    \/ \E type \in RawNames :
           TaskActvInit([task_id |-> <<"1">>, actv_code_type_id |-> type,
                         actv_code_id |-> <<>>, proj_id |-> <<>>])
    \/ \E r \in {<<>>, <<"1">>}, t \in RawCats, c \in RawCats :
           ResourceCatInit([rsrc_id |-> r, rsrc_catg_type_id |-> t,
                            rsrc_catg_id |-> c])
    \/ \E id \in {<<>>, <<"1">>}, name \in RawNames :
           ResourceCurveInit([curv_id |-> id, curv_name |-> name])
    \/ \E id \in {<<"0">>, <<"1">>}, data \in RawCalendarData :
           CalendarInit(1, [SampleCalendarRow EXCEPT !.clndr_id = id,
                                                     !.clndr_data = data])
    \/ \E i \in 1..MaxObjs : ResourceCatGetTsv(i)
    \/ \E id \in OptIds : CalendarFindById(id)

SpecDecode == Init /\ [][NextDecode]_vars

\* Raw day_hr_cnt fields: missing, empty, "0", "4", "8".
RawDayHours == {NoKey, <<>>, <<"0">>, <<"4">>, <<"8">>}

\* Raw target_drtn_hr_cnt fields: empty, "0", "16".
RawTargets == RawHours \cup {<<"0">>}

\* One Document whose Calendars differ in their hours a day, and the
\* durations of its Tasks.
NextDuration ==
    \/ \E h \in RawDayHours :
           CalendarInit(1, [SampleCalendarRow EXCEPT !.day_hr_cnt = h])
    \/ \E c \in {<<>>, <<"1">>}, t \in RawTargets :
           TaskInit(1, [SampleTaskRow EXCEPT !.clndr_id = c,
                                             !.target_drtn_hr_cnt = t])
    \/ \E i \in 1..MaxObjs : TaskDuration(1, i)

SpecDuration == Init /\ [][NextDuration]_vars

\* Document 1 is ingested, and then two for-loops run over its registries
\* with their steps interleaved.
NextShared ==
    \/ /\ parsing = 1
       /\ \E id \in OptIds : ProjectsAdd(id)
    \/ /\ parsing = 1
       /\ \E id \in OptIds : ActivityResourcesAdd(id, 1, 1)
    \/ FinishIngest(1)
    \/ /\ parsing # 1
       /\ \E r \in Readers : ProjectsIter(r)
    \/ /\ parsing # 1
       /\ \E r \in Readers : ProjectsNext(r)
    \/ /\ parsing # 1
       /\ \E r \in Readers : ActivityResourcesIter(r)
    \/ /\ parsing # 1
       /\ \E r \in Readers : ActivityResourcesNext(r)

SpecShared == Init /\ [][NextShared]_vars

\* A later date than GoodDate.
LaterDate ==
    <<"2", "0", "2", "4", "-", "0", "2", "-", "2", "9", " ",
      "1", "7", ":", "3", "0">>

\* Tasks with and without actual and target dates, and their effective
\* start and end dates.
NextDates ==
    \/ \E act \in {<<>>, GoodDate, BadDate}, target \in {<<>>, LaterDate} :
           TaskInit(1, [SampleTaskRow EXCEPT !.act_start_date = act,
                                             !.target_start_date = target])
    \/ \E act \in {<<>>, LaterDate}, target \in {<<>>, GoodDate} :
           TaskInit(1, [SampleTaskRow EXCEPT !.act_end_date = act,
                                             !.target_end_date = target])
    \/ \E i \in 1..MaxObjs : TaskStartDate(1, i)
    \/ \E i \in 1..MaxObjs : TaskEndDate(1, i)

SpecDates == Init /\ [][NextDates]_vars

\* Raw clndr_data of the calendar queries: empty; Monday and Wednesday
\* worked; the same with an exception on day 3; the same with exceptions on
\* days 2 and 8.
RawWorkData ==
    {<<>>, <<"1", "3">>, <<"1", "3", "|", "3">>, <<"1", "3", "|", "2", "8">>}

\* The dates asked about: a Monday, a Tuesday, a Wednesday, and the same
\* three weekdays one week later.
QueryDates == {1, 2, 3, 8, 9, 10}

\* Calendars decoded from clndr_data and asked whether dates are worked.
NextCalendar ==
    \/ \E data \in RawWorkData :
           CalendarInit(1, [SampleCalendarRow EXCEPT !.clndr_data = data])
    \/ \E i \in 1..MaxObjs, date \in QueryDates : CalendarIsWorking(i, date)

SpecCalendar == Init /\ [][NextCalendar]_vars

\* The two registries filled, written out as tables and measured.
NextTsv ==
    \/ \E id \in OptIds : ProjectsAdd(id)
    \/ \E id \in OptIds : ActivityResourcesAdd(id, 1, 1)
    \/ ProjectsGetTsv
    \/ ActivityResourcesGetTsv
    \/ ProjectsLen
    \/ ActivityResourcesLen
    \/ ActivityResourcesCount

SpecTsv == Init /\ [][NextTsv]_vars

\* Adds to the registries, the queries on them, and Tasks resolving their
\* calendars.
NextFrame ==
    \/ \E id \in {0, 1} : ProjectsAdd(id)
    \/ \E r \in {None, 1} :
           ActivityResourcesAdd(Len(ActivityResources_taskrsrc) + 1, 1, r)
    \/ \E raw \in {<<>>, <<"1">>} :
           CalendarInit(1, [SampleCalendarRow EXCEPT !.clndr_id = raw])
    \/ \E raw \in {<<>>, <<"1">>} :
           TaskInit(1, [SampleTaskRow EXCEPT !.clndr_id = raw])
    \/ \E id \in {0, 1} : ProjectsFindById(id)
    \/ \E id \in {0, 1} : ActivityResourcesFindById(id)
    \/ \E id \in {None, 1} : ActivityResourcesFindByRsrcId(id)
    \/ \E id \in {0, 1} : ActivityResourcesFindByActivityId(id)
    \/ ProjectsGetTsv
    \/ ActivityResourcesGetTsv

SpecFrame == Init /\ [][NextFrame]_vars

Next ==
    \/ NextFind \/ NextAssign \/ NextIter \/ NextXref
    \/ NextTaskRow \/ NextDecode \/ NextDuration \/ NextShared
    \/ NextDates \/ NextCalendar \/ NextTsv \/ NextFrame

Spec == Init /\ [][Next]_vars

(***************************************************************************)
(* Properties: cross-references between Task and Calendar (SpecXref).      *)
(***************************************************************************)
\* HasCalendarWithId(c): some loaded Calendar carries clndr_id c.
HasCalendarWithId(c) ==
    \E j \in 1..Len(Calendar_obj_list) : Calendar_obj_list[j].clndr_id = c

\* C1: a Task whose clndr_id is unset has no calendar (None), whatever
\* Calendar objects were loaded before it, those with an unset clndr_id
\* included.
C1_UnsetCalendarIdResolvesToNone ==
    \A d \in Docs : \A i \in 1..Len(tasks[d]) :
        tasks[d][i].clndr_id = None => tasks[d][i].calendar = None

\* C2: once the ingestion of a Document has completed, each of its Tasks
\* with clndr_id = c, where the Document holds a Calendar with clndr_id = c,
\* refers to a Calendar with that id, whichever of the two rows came first.
C2_ResolutionIndependentOfLoadOrder ==
    \A d \in Docs : parsing > d =>
        \A i \in 1..Len(tasks[d]) : \A j \in 1..Len(Calendar_obj_list) :
            ( /\ calendar_doc[j] = d
              /\ tasks[d][i].clndr_id # None
              /\ Calendar_obj_list[j].clndr_id = tasks[d][i].clndr_id )
            => /\ tasks[d][i].calendar # None
               /\ Calendar_obj_list[tasks[d][i].calendar].clndr_id
                      = tasks[d][i].clndr_id

\* C3: reading duration of a Task with a set, non-zero target_drtn_hr_cnt
\* whose calendar cannot be resolved (clndr_id unset, or no Calendar with
\* that id loaded) raises nothing and returns target_drtn_hr_cnt / 8.
C3_DurationFallsBackWithoutCalendar ==
    ret.op = "Task.duration" =>
        LET t == tasks[ret.arg[1]][ret.arg[2]]
        IN  ( /\ Truthy(t.target_drtn_hr_cnt)
              /\ (t.clndr_id = None \/ ~HasCalendarWithId(t.clndr_id)) )
            => /\ ret.kind = "number"
               /\ ret.val = Quot(t.target_drtn_hr_cnt, 8)

\* C5: a Task of one Document never refers to a Calendar that was decoded
\* for another Document, also when a Calendar with the Task's clndr_id exists
\* only in the other Document.  (Stated for the Tasks whose clndr_id is set;
\* C1 is about the unset ones.)
C5_DocumentsIsolated ==
    \A d \in Docs : \A i \in 1..Len(tasks[d]) :
        (tasks[d][i].clndr_id # None /\ tasks[d][i].calendar # None)
            => calendar_doc[tasks[d][i].calendar] = d

(***************************************************************************)
(* Properties: lookups by primary key (SpecFind).                          *)
(***************************************************************************)
\* The primary keys of the four registries, in insertion order.
ProjectKeys ==
    [i \in 1..Len(Projects_projects) |-> Projects_projects[i].proj_id]

TaskRsrcKeys ==
    [i \in 1..Len(ActivityResources_taskrsrc) |->
        ActivityResources_taskrsrc[i].taskrsrc_id]

CalendarKeys ==
    [i \in 1..Len(Calendar_obj_list) |-> Calendar_obj_list[i].clndr_id]

CurveKeys ==
    [i \in 1..Len(ResourceCurve_obj_list) |->
        ResourceCurve_obj_list[i].curv_id]

PairwiseDistinct(keys) ==
    \A i, j \in 1..Len(keys) : i # j => keys[i] # keys[j]

\* The last call was find_by_id named op, on the registry with these keys,
\* and it returned the record at each position that carries the id asked for.
FoundWhereAdded(op, keys) ==
    ret.op = op =>
        \A i \in 1..Len(keys) :
            keys[i] = ret.arg[1] => ret.kind = "object" /\ ret.val = <<i>>

\* C4: in a registry whose primary keys are pairwise distinct, find_by_id(pk)
\* returns exactly the record that was added with primary key pk (Projects,
\* ActivityResources, Calendar, ResourceCurve).
C4_FindByIdReturnsTheRecord ==
    /\ PairwiseDistinct(ProjectKeys)
           => FoundWhereAdded("Projects.find_by_id", ProjectKeys)
    /\ PairwiseDistinct(TaskRsrcKeys)
           => FoundWhereAdded("ActivityResources.find_by_id", TaskRsrcKeys)
    /\ PairwiseDistinct(CalendarKeys)
           => FoundWhereAdded("Calendar.find_by_id", CalendarKeys)
    /\ PairwiseDistinct(CurveKeys)
           => FoundWhereAdded("ResourceCurve.find_by_id", CurveKeys)

\* C4 happens: three Projects with distinct keys, and the one added last is
\* looked up and returned.
C4_Witness ==
    /\ Len(Projects_projects) = 3
    /\ PairwiseDistinct(ProjectKeys)
    /\ ret.op = "Projects.find_by_id"
    /\ ret.arg = <<Projects_projects[3].proj_id>>
    /\ ret.kind = "object"
    /\ ret.val = <<3>>

\* The last call was find_by_id named op, for an id that is set, and it
\* returned the record added last among those that carry that id.
FoundLastAdded(op, keys) ==
    (ret.op = op /\ ret.arg[1] # None) =>
        \A i \in 1..Len(keys) :
            ( /\ keys[i] = ret.arg[1]
              /\ \A j \in (i + 1)..Len(keys) : keys[j] # ret.arg[1] )
            => ret.kind = "object" /\ ret.val = <<i>>

\* C7: after two records with the same primary key were added, find_by_id
\* for that key returns the record added last.
C7_LastWriteWins ==
    /\ FoundLastAdded("Projects.find_by_id", ProjectKeys)
    /\ FoundLastAdded("ActivityResources.find_by_id", TaskRsrcKeys)
    /\ FoundLastAdded("Calendar.find_by_id", CalendarKeys)
    /\ FoundLastAdded("ResourceCurve.find_by_id", CurveKeys)

\* The last call was find_by_id named op: it returned one record or None,
\* and None when no record carries the id asked for.
NotFoundIsNone(op, keys) ==
    ret.op = op =>
        /\ ret.kind \in {"object", "None"}
        /\ (\A i \in 1..Len(keys) : keys[i] # ret.arg[1])
               => ret.kind = "None"

\* C8: find_by_id with an id no record carries raises nothing and returns
\* None in every registry, never a collection.
C8_NotFoundIsNone ==
    /\ NotFoundIsNone("Projects.find_by_id", ProjectKeys)
    /\ NotFoundIsNone("ActivityResources.find_by_id", TaskRsrcKeys)
    /\ NotFoundIsNone("Calendar.find_by_id", CalendarKeys)
    /\ NotFoundIsNone("ResourceCurve.find_by_id", CurveKeys)

(***************************************************************************)
(* Properties: iteration (SpecIter).                                       *)
(***************************************************************************)
\* C6: a loop over a registry that has only been added to (its cursor is
\* still at 0 when the loop starts) is handed every record added, once each,
\* in the order of the adds, whatever their primary keys.
C6_IterationInInsertionOrder ==
    \A r \in Readers :
        ( /\ readers[r].pc = "done"
          /\ readers[r].start = 0
          /\ readers[r].solo )
        => /\ Len(readers[r].out) = readers[r].n
           /\ \A k \in 1..readers[r].n : readers[r].out[k] = k

\* C6 happens: a completed first loop over Projects whose keys are not in
\* numeric order.
C6_Witness ==
    /\ readers[1].pc = "done"
    /\ readers[1].reg = "Projects"
    /\ readers[1].start = 0
    /\ readers[1].n = 3
    /\ Len(Projects_projects) = 3
    /\ Projects_projects[1].proj_id > Projects_projects[2].proj_id
    /\ readers[1].out = <<1, 2, 3>>

(***************************************************************************)
(* Properties: lookups of assignments by foreign key (SpecAssign).         *)
(***************************************************************************)
\* val lists, in insertion order and once each, exactly the assignments
\* whose field (task_id or rsrc_id) equals id.
ExactlyTheMatches(val, field, id) ==
    /\ \A k \in 1..Len(val) :
           /\ val[k] \in 1..Len(ActivityResources_taskrsrc)
           /\ ActivityResources_taskrsrc[val[k]][field] = id
    /\ \A k \in 1..(Len(val) - 1) : val[k] < val[k + 1]
    /\ \A i \in 1..Len(ActivityResources_taskrsrc) :
           ActivityResources_taskrsrc[i][field] = id
               => \E k \in 1..Len(val) : val[k] = i

\* C9: find_by_activity_id(id), also when called through Task.resources,
\* returns exactly the assignments whose task_id equals id, in insertion
\* order, whatever their rsrc_id.  (Stated for the ids that are set.)
C9_FindByActivityIdAllAssignments ==
    /\ (ret.op = "ActivityResources.find_by_activity_id" /\ ret.arg[1] # None)
           => /\ ret.kind = "list"
              /\ ExactlyTheMatches(ret.val, "task_id", ret.arg[1])
    /\ (ret.op = "Task.resources" /\ tasks[1][ret.arg[2]].task_id # None)
           => /\ ret.kind = "list"
              /\ ExactlyTheMatches(ret.val, "task_id",
                                   tasks[1][ret.arg[2]].task_id)

\* C10: find_by_rsrc_id(id) returns exactly the assignments whose rsrc_id
\* equals id, in insertion order, and the empty list when none matches.
C10_FindByRsrcIdExactMatches ==
    ret.op = "ActivityResources.find_by_rsrc_id"
        => /\ ret.kind = "list"
           /\ ExactlyTheMatches(ret.val, "rsrc_id", ret.arg[1])

\* C10 happens: of three assignments the first and the third carry the
\* rsrc_id asked for, and both are returned in that order.
C10_Witness ==
    /\ ret.op = "ActivityResources.find_by_rsrc_id"
    /\ Len(ActivityResources_taskrsrc) = 3
    /\ ActivityResources_taskrsrc[2].rsrc_id # ret.arg[1]
    /\ ret.val = <<1, 3>>

(***************************************************************************)
(* Properties: decoding of rows (SpecTaskRow, SpecDecode).                 *)
(***************************************************************************)
\* The numeric fields Task has in this model.
TaskNumbers ==
    {"task_id", "wbs_id", "clndr_id", "phys_complete_pct",
     "total_float_hr_cnt", "free_float_hr_cnt", "remain_drtn_hr_cnt",
     "target_drtn_hr_cnt"}

\* C11: in a Task constructed from a row, every numeric field whose raw
\* value is missing or empty is None, so that a decoded 0 always stands for a
\* 0 in the row.
C11_BlankNumericIsUnset ==
    (ret.op = "Task" /\ ret.kind = "object") =>
        \A f \in TaskNumbers :
            ~RawTruthy(row.params[f])
                => tasks[ret.arg[1]][ret.val[1]][f] = None

\* The raw value is missing, empty, or one the conversion of its field
\* accepts.
FieldIsBlankOrValid(f, raw) ==
    \/ ~RawTruthy(raw)
    \/ f \in {"curv_name", "actv_code_type_id"}
    \/ f \in {"external_early_start_date", "external_late_end_date"}
           /\ IsDate(raw)
    \/ f = "clndr_data" /\ CalendarData_ok(raw)
    \/ f \notin {"curv_name", "actv_code_type_id", "clndr_data",
                 "external_early_start_date", "external_late_end_date"}
           /\ IsNumLit(raw)

\* C12: constructing a Task, TaskActv, ResourceCurve, ResourceCat or
\* Calendar from a row in which any fields are missing or empty, and the
\* others hold values of their type, raises no error.
C12_DecodingTotalOnBlank ==
    ( /\ ret.op \in {"Task", "TaskActv", "ResourceCurve", "ResourceCat",
                     "Calendar"}
      /\ \A f \in DOMAIN row.params :
             FieldIsBlankOrValid(f, row.params[f]) )
        => ret.kind = "object"

\* int(raw) of an integer-or-blank raw value, None for a blank one.
IntOrNone(raw) == IF RawTruthy(raw) THEN DigitsVal(raw) ELSE None

\* C13: get_tsv of the ResourceCat decoded from a row (rsrc_id,
\* rsrc_catg_type_id, rsrc_catg_id) of integers and blanks returns those
\* three values in that order, a blank as None.
C13_ResourceCatRoundTrip ==
    ( /\ ret.op = "ResourceCat.get_tsv"
      /\ row.cls = "ResourceCat"
      /\ row.obj = ret.arg[1] )
        => /\ ret.kind = "row"
           /\ ret.val[2] = IntOrNone(row.params.rsrc_id)
           /\ ret.val[3] = IntOrNone(row.params.rsrc_catg_type_id)
           /\ ret.val[4] = IntOrNone(row.params.rsrc_catg_id)

\* What a lenient date field is to hold for a raw value: None when the value
\* is missing, empty or no date, else the date.
LenientDate(raw) == IF IsDate(raw) THEN DateFields(raw) ELSE NoDate

\* C14: a Task row whose two external dates are anything at all constructs
\* a Task; each of the two fields holds its own date when its raw value is
\* one and None otherwise, whatever the other field's raw value; and get_tsv
\* of any Task returns a row.  (Stated for rows whose phys_complete_pct
\* holds a number.)
C14_LenientDatesDecodedIndependently ==
    /\ ( /\ ret.op = "Task"
         /\ \A f \in TaskNumbers : FieldIsBlankOrValid(f, row.params[f])
         /\ IsNumLit(row.params.phys_complete_pct) )
           => /\ ret.kind = "object"
              /\ LET t == tasks[ret.arg[1]][ret.val[1]]
                 IN  /\ t.external_early_start_date =
                            LenientDate(row.params.external_early_start_date)
                     /\ t.external_late_end_date =
                            LenientDate(row.params.external_late_end_date)
    /\ ret.op = "Task.get_tsv" => ret.kind = "row"

\* C15: a Calendar row whose clndr_data cannot be decoded still yields a
\* Calendar: it is appended to Calendar.obj_list with no working days and no
\* exceptions, and the Calendars appended before it are as they were.
C15_MalformedCalendarDataDegrades ==
    ( /\ ret.op = "Calendar"
      /\ IsNumLit(row.params.clndr_id)
      /\ IsNumLit(row.params.day_hr_cnt)
      /\ RawTruthy(row.params.clndr_data)
      /\ ~CalendarData_ok(Strip(row.params.clndr_data)) )
        => /\ ret.kind = "object"
           /\ ret.val = <<Len(Calendar_obj_list)>>
           /\ Calendar_obj_list[ret.val[1]].clndr_id
                  = DigitsVal(row.params.clndr_id)
           /\ Calendar_obj_list[ret.val[1]].working_days = {}
           /\ Calendar_obj_list[ret.val[1]].exceptions = <<>>

(***************************************************************************)
(* Properties: duration in days (SpecDuration).                            *)
(***************************************************************************)
\* C16: the duration of a Task whose calendar is resolved and has a set,
\* non-zero day_hr_cnt is target_drtn_hr_cnt divided by that day_hr_cnt.
C16_DurationUsesOwnCalendar ==
    ret.op = "Task.duration" =>
        LET t == tasks[ret.arg[1]][ret.arg[2]]
        IN  ( /\ t.calendar # None
              /\ t.target_drtn_hr_cnt # None
              /\ Truthy(Calendar_obj_list[t.calendar].day_hr_cnt) )
            => /\ ret.kind = "number"
               /\ ret.val[2] > 0
               /\ ret.val[1] * Calendar_obj_list[t.calendar].day_hr_cnt
                      = t.target_drtn_hr_cnt * ret.val[2]

\* C16 happens: 16 hours on a resolved 4-hour calendar are 4 days.
C16_Witness ==
    /\ ret.op = "Task.duration"
    /\ tasks[ret.arg[1]][ret.arg[2]].target_drtn_hr_cnt = 16
    /\ tasks[ret.arg[1]][ret.arg[2]].calendar # None
    /\ Calendar_obj_list[tasks[ret.arg[1]][ret.arg[2]].calendar].day_hr_cnt = 4
    /\ ret.val = <<4, 1>>

\* C17: the duration of a Task whose calendar is resolved and has an unset
\* or zero day_hr_cnt is target_drtn_hr_cnt / 8; nothing is divided by zero
\* or by None.
C17_DurationNeverDividesByZero ==
    ret.op = "Task.duration" =>
        LET t == tasks[ret.arg[1]][ret.arg[2]]
        IN  ( /\ t.calendar # None
              /\ t.target_drtn_hr_cnt # None
              /\ ~Truthy(Calendar_obj_list[t.calendar].day_hr_cnt) )
            => /\ ret.kind = "number"
               /\ ret.val[2] > 0
               /\ ret.val[1] * 8 = t.target_drtn_hr_cnt * ret.val[2]

\* C17 happens: 16 hours on a resolved calendar whose day_hr_cnt is 0 are
\* 2 days.
C17_Witness ==
    /\ ret.op = "Task.duration"
    /\ tasks[ret.arg[1]][ret.arg[2]].target_drtn_hr_cnt = 16
    /\ tasks[ret.arg[1]][ret.arg[2]].calendar # None
    /\ Calendar_obj_list[tasks[ret.arg[1]][ret.arg[2]].calendar].day_hr_cnt = 0
    /\ ret.val = <<2, 1>>

(***************************************************************************)
(* Properties: two readers of one registry (SpecShared).                   *)
(***************************************************************************)
\* C18: once the Document is ingested, every for-loop over one of its
\* registries is handed all the records in insertion order, whatever another
\* loop over the same registry does in between.  (Stated for loops begun
\* while the registry's cursor was still at 0.)
C18_ConcurrentReadersSeeAll ==
    \A r \in Readers :
        ( /\ parsing # 1
          /\ readers[r].pc = "done"
          /\ readers[r].start = 0 )
        => /\ Len(readers[r].out) = readers[r].n
           /\ \A k \in 1..readers[r].n : readers[r].out[k] = k

(***************************************************************************)
(* Properties: Task.totalint and Task.find_by_wbs_id (SpecTaskRow).        *)
(***************************************************************************)
\* C19: Task.totalint never raises; it is total_float_hr_cnt / 8 when
\* total_float_hr_cnt is set and None when it is not.
C19_TotalintIsTotalFloatInDays ==
    ret.op = "Task.totalint" =>
        LET t == tasks[ret.arg[1]][ret.arg[2]]
        IN  /\ ret.kind # "raise"
            /\ t.total_float_hr_cnt = None => ret.kind = "None"
            /\ t.total_float_hr_cnt # None
                   => /\ ret.kind = "number"
                      /\ ret.val[2] > 0
                      /\ ret.val[1] * 8 = t.total_float_hr_cnt * ret.val[2]

\* The Tasks constructed so far whose wbs_id is w.
TasksWithWbsId(w) ==
    {p \in Docs \X (1..MaxObjs) :
         p[2] <= Len(tasks[p[1]]) /\ tasks[p[1]][p[2]].wbs_id = w}

\* C20: Task.find_by_wbs_id(w) returns as many Tasks as have been
\* constructed with wbs_id = w, each of them with that wbs_id.  (Stated for
\* a w that is set.)
C20_FindByWbsIdAllTasks ==
    (ret.op = "Task.find_by_wbs_id" /\ ret.arg[1] # None)
        => /\ ret.kind = "list"
           /\ Len(ret.val) = Cardinality(TasksWithWbsId(ret.arg[1]))
           /\ \A k \in 1..Len(ret.val) :
                  Task_obj_list[ret.val[k]].wbs_id = ret.arg[1]

(***************************************************************************)
(* Properties: effective dates (SpecDates).                                *)
(***************************************************************************)
\* C21: Task.start_date is act_start_date when that is set and
\* target_start_date otherwise, Task.end_date is act_end_date when that is
\* set and target_end_date otherwise; the result is None only when both the
\* actual and the target date are unset.
C21_EffectiveDatePrefersActual ==
    /\ ret.op = "Task.start_date" =>
           LET t == tasks[ret.arg[1]][ret.arg[2]]
               due == IF t.act_start_date # NoDate
                      THEN t.act_start_date ELSE t.target_start_date
           IN  /\ ret.kind \in {"date", "None"}
               /\ ret.kind = "date" => ret.val = due
               /\ ret.kind = "None" <=> ( /\ t.act_start_date = NoDate
                                          /\ t.target_start_date = NoDate )
    /\ ret.op = "Task.end_date" =>
           LET t == tasks[ret.arg[1]][ret.arg[2]]
               due == IF t.act_end_date # NoDate
                      THEN t.act_end_date ELSE t.target_end_date
           IN  /\ ret.kind \in {"date", "None"}
               /\ ret.kind = "date" => ret.val = due
               /\ ret.kind = "None" <=> ( /\ t.act_end_date = NoDate
                                          /\ t.target_end_date = NoDate )

\* C21 happens: a Task started on 2024-01-15 08:00 with a target start of
\* 2024-02-29 17:30 has the actual date as its start_date.
C21_Witness ==
    /\ ret.op = "Task.start_date"
    /\ tasks[ret.arg[1]][ret.arg[2]].act_start_date = <<2024, 1, 15, 8, 0>>
    /\ tasks[ret.arg[1]][ret.arg[2]].target_start_date = <<2024, 2, 29, 17, 30>>
    /\ ret.val = <<2024, 1, 15, 8, 0>>

IsTableOf(rows, name, n) ==
    IF n = 0
    THEN rows = <<>>
    ELSE /\ Len(rows) = n + 2
         /\ rows[1] = <<"%T", name>>
         /\ rows[2][1] = "%F"
         /\ \A k \in 1..n : rows[k + 2][1] = "%R"

\* C23: get_tsv of Projects and of ActivityResources returns the empty list
\* for an empty registry, and otherwise the table-header row, the
\* field-header row and one data row per record in insertion order: record
\* count + 2 rows.
C23_GetTsvHeadersAndRows ==
    /\ ret.op = "Projects.get_tsv" =>
           /\ ret.kind = "rows"
           /\ IsTableOf(ret.val, "PROJECT", Len(Projects_projects))
           /\ \A k \in 1..Len(Projects_projects) :
                  ret.val[k + 2][2] = Projects_projects[k].proj_id
    /\ ret.op = "ActivityResources.get_tsv" =>
           /\ ret.kind = "rows"
           /\ IsTableOf(ret.val, "TASKRSRC", Len(ActivityResources_taskrsrc))
           /\ \A k \in 1..Len(ActivityResources_taskrsrc) :
                  ret.val[k + 2][2] = ActivityResources_taskrsrc[k].taskrsrc_id

\* C23 happens: a Projects registry of three Projects added out of key
\* order is written as five rows.
C23_Witness ==
    /\ ret.op = "Projects.get_tsv"
    /\ Len(Projects_projects) = 3
    /\ Projects_projects[1].proj_id > Projects_projects[2].proj_id
    /\ Len(ret.val) = 5

\* C25: len() of a registry raises nothing and is the number of records
\* added; for ActivityResources it is also what count returns.
C25_LenIsRecordCount ==
    /\ ret.op = "Projects.__len__" =>
           /\ ret.kind = "int"
           /\ ret.val = <<Len(Projects_projects)>>
    /\ ret.op = "ActivityResources.__len__" =>
           /\ ret.kind = "int"
           /\ ret.val = ActivityResources_count.val
    /\ ret.op = "ActivityResources.count" =>
           /\ ret.kind = "int"
           /\ ret.val = <<Len(ActivityResources_taskrsrc)>>

(***************************************************************************)
(* Properties: iterating again (SpecIter).                                 *)
(***************************************************************************)
\* C24: a for-loop over a registry started after an earlier loop over it
\* has run to its end is handed every record of the registry again, from
\* the first one on, those added since the earlier loop included.
C24_IterationRepeatable ==
    \A r \in Loops :
        ( /\ readers[r].pc = "done"
          /\ readers[r].start # 0 )
        => /\ Len(readers[r].out) = readers[r].n
           /\ \A k \in 1..readers[r].n : readers[r].out[k] = k

(***************************************************************************)
(* Properties: what a call changes (SpecFrame).                            *)
(***************************************************************************)
\* The queries of the two registries.
PureReads ==
    {"Projects.find_by_id", "Projects.get_tsv",
     "ActivityResources.find_by_id", "ActivityResources.find_by_rsrc_id",
     "ActivityResources.find_by_activity_id", "ActivityResources.get_tsv"}

\* The list after is the list before with one record appended.
OneAppended(before, after) ==
    /\ Len(after) = Len(before) + 1
    /\ SubSeq(after, 1, Len(before)) = before

\* What the call that has just returned was allowed to change.
FrameOfCall ==
    /\ ret'.op = "Projects.add" =>
           /\ OneAppended(Projects_projects, Projects_projects')
           /\ UNCHANGED <<ActivityResources_taskrsrc, Projects_index,
                          ActivityResources_index>>
    /\ ret'.op = "ActivityResources.add" =>
           /\ OneAppended(ActivityResources_taskrsrc,
                          ActivityResources_taskrsrc')
           /\ UNCHANGED <<Projects_projects, Projects_index,
                          ActivityResources_index>>
    /\ ret'.op \in PureReads =>
           UNCHANGED <<Projects_projects, Projects_index,
                       ActivityResources_taskrsrc, ActivityResources_index>>
    /\ (ret'.op = "Task" /\ ret'.kind = "object") =>
           /\ UNCHANGED Calendar_obj_list
           /\ LET t == tasks'[ret'.arg[1]][ret'.val[1]]
              IN  t.calendar # None
                      => /\ t.calendar \in 1..Len(Calendar_obj_list)
                         /\ Calendar_obj_list[t.calendar].clndr_id = t.clndr_id

\* C26: an add appends exactly one record and leaves the earlier records
\* and their order as they were; find_by_id, find_by_rsrc_id,
\* find_by_activity_id and get_tsv change neither the records nor the
\* cursor of a registry; constructing a Task adds no Calendar, and the
\* calendar the Task refers to is a record of Calendar.obj_list with the
\* Task's clndr_id.
C26_AppendOnlyAndPureReads == [][FrameOfCall]_vars

\* C26 happens: a lookup has returned the Project of the registry, and a
\* Task refers to the Calendar of the list.
C26_Witness ==
    /\ ret.op = "Projects.find_by_id"
    /\ ret.kind = "object"
    /\ Len(Projects_projects) = 1
    /\ Len(tasks[1]) = 1
    /\ tasks[1][1].calendar = 1

====
